---- MODULE Spec2Model ----
(***************************************************************************)
(* Model of the two-stage LeetCode solution pipeline:                      *)
(*   src/src/crew_api.py            generate_leetcode_solution,            *)
(*                                  get_leetcode_crew                      *)
(*   src/src/crews/leetcode_crew.py LeetCodeCrew.solve_leetcode_problem    *)
(*   src/src/crews/agents/leetcode_tasks.py  the output contracts          *)
(*                                                                         *)
(* Text is modelled as follows.  A problem description is a run-length     *)
(* triple (leading blanks, core, trailing blanks) whose core starts and    *)
(* ends with a non-blank character.  Diagnostic messages are sequences of  *)
(* tokens, so that an f-string "prefix{e}" is <<prefix, e>>.               *)
(***************************************************************************)
EXTENDS Integers, Sequences, FiniteSets, TLC

\* ---------------------------------------------------------------- bounds
MaxApproaches == 3
MaxCriteria == 6
MaxRequests == 2
MaxKickoffs == 2
NumProcs == 2
MaxTextLen == 3
MaxKeySteps == 6

\* ------------------------------------------------------ program constants
MinContentLen == 10
DefaultRank == 999
IntroductionLen == 200
MaxDiagramSteps == 5

None == "None"

\* a string value whose length matters: its characters and their number
Text(t, n) == [text |-> <<t>>, len |-> n]

\* s[:n]
Slice(s, n) == IF s.len <= n THEN s ELSE [text |-> <<"prefix of">> \o s.text, len |-> n]

\* ------------------------------------------------------------- contracts
\* leetcode_tasks.SolutionApproach
SolutionApproach(t, c, r, tc, sc, cd, ec, te) ==
    [title |-> t, content |-> c, rank |-> r, time_complexity |-> tc,
     space_complexity |-> sc, code |-> cd, edge_cases |-> ec,
     test_examples |-> te]

\* leetcode_tasks.Criteria: id and description only, extra fields ignored
Criteria(i, d) == [id |-> i, description |-> d]

\* leetcode_crew.SolutionResult(...).dict()
SolutionResult(a, c, s, e) ==
    [approaches |-> a, criteria |-> c, status |-> s, error |-> e]

\* dict.get(key, default)
Get(d, k, default) == IF k \in DOMAIN d THEN d[k] ELSE default

\* `x or ""` followed by str(): a falsy value becomes the empty string
OrEmpty(x) == IF x = None \/ x = "" THEN "" ELSE x

\* ------------------------------------------------- collaborator's outputs
ApproachPool ==
    { SolutionApproach("Hash Map", Text("one pass", 8), 1, "O(n)", "O(n)", "code1", "empty", "ex1"),
      SolutionApproach("Two Pointers", Text("sort first ...", 250), 1, "", "", "", "", ""),
      SolutionApproach("Brute Force", Text("all pairs", 9), 2, "O(n^2)", "O(1)", "code2", "", ""),
      SolutionApproach("Unranked", Text("no rank given", 13), DefaultRank, "", "", "", "", "") }

CriteriaPool ==
    { Criteria("usesHashMap", "uses a hash map"),
      Criteria("usesHashMap", "looks up the complement"),
      Criteria("handlesEmpty", "returns early on empty input") }

IdNames == <<"c1", "c2", "c3", "c4", "c5", "c6", "c7", "c8", "c9">>

SeqsUpTo(S, n) == UNION { [1..k -> S] : k \in 0..n }

\* a list of n criteria with pairwise distinct ids, in generator order
LongCriteria(n) == [i \in 1..n |-> Criteria(IdNames[i], "checks one thing")]

ApproachLists == SeqsUpTo(ApproachPool, MaxApproaches)

CriteriaLists ==
    SeqsUpTo(CriteriaPool, 2) \cup { LongCriteria(n) : n \in 3..MaxCriteria }

Faults == { "TimeoutError", "AuthenticationError" }

\* task.output of a task that has not produced an output
NoOutput == [kind |-> "absent"]

\* TaskOutput whose structured (pydantic) value is None
RawOutput == [kind |-> "output", pydantic |-> [kind |-> None]]

ApproachesOutput(l) ==
    [kind |-> "output", pydantic |-> [kind |-> "model", approaches |-> l]]

CriteriaOutput(l) ==
    [kind |-> "output", pydantic |-> [kind |-> "model", criteria |-> l]]

Stage1Outputs ==
    { NoOutput, RawOutput } \cup { ApproachesOutput(l) : l \in ApproachLists }

Stage2Outputs ==
    { NoOutput, RawOutput } \cup { CriteriaOutput(l) : l \in CriteriaLists }

\* ------------------------------------- what the generator emits for stage 1
\* a record of the generator's JSON: any of the fields may be missing
RawRecord(fields, a) == [f \in fields |-> a[f]]

ApproachFields ==
    {"title", "content", "rank", "time_complexity", "space_complexity", "code",
     "edge_cases", "test_examples"}

DeficientPool ==
    { RawRecord(ApproachFields \ {"title"},
                SolutionApproach("", Text("no title key", 12), 1, "O(1)", "", "", "", "")),
      RawRecord(ApproachFields \ {"rank"},
                SolutionApproach("No Rank", Text("no rank key", 11), 0, "", "", "", "", "")),
      SolutionApproach("", Text("empty title", 11), 2, "", "", "", "", "") }

RawApproachPool == ApproachPool \cup DeficientPool

\* the deficient records appear in lists of at most 2 records
RawApproachLists == ApproachLists \cup SeqsUpTo(RawApproachPool, 2)

\* the raw result of a generation call: nothing, free text, or JSON records
NoRaw == [kind |-> "absent"]

FreeText == [kind |-> "text"]

RawRecords(l) == [kind |-> "records", records |-> l]

Stage1Raw == { NoRaw, FreeText } \cup { RawRecords(l) : l \in RawApproachLists }

\* SolutionApproach(**record): title and content are required, the other
\* fields have defaults
RequiredFields == {"title", "content"}

ValidRecord(r) == RequiredFields \subseteq DOMAIN r

FillDefaults(r) ==
    SolutionApproach(r.title, r.content, Get(r, "rank", DefaultRank),
                     Get(r, "time_complexity", ""), Get(r, "space_complexity", ""),
                     Get(r, "code", ""), Get(r, "edge_cases", ""),
                     Get(r, "test_examples", ""))

\* output_pydantic=SolutionApproaches: the structured value of the task
\* output is the validated model, or None when the raw result does not
\* validate as a whole
ValidateApproaches(raw) ==
    IF raw.kind = "absent" THEN NoOutput
    ELSE IF raw.kind = "text" THEN RawOutput
    ELSE IF \A i \in 1..Len(raw.records) : ValidRecord(raw.records[i])
    THEN ApproachesOutput([i \in 1..Len(raw.records) |-> FillDefaults(raw.records[i])])
    ELSE RawOutput

\* ---------------------------------------------------------------- request
Content(lead, core, trail) == [lead |-> lead, core |-> core, trail |-> trail]

ContentLen(c) == c.lead + c.core + c.trail

\* len(problem_description.strip())
StripLen(c) == c.core

ContentPool ==
    { Content(0, 0, 0), Content(1, 0, 0), Content(0, 9, 0), Content(1, 9, 0),
      Content(0, 10, 0), Content(1, 10, 1) }

LanguagePool ==
    { [programmingLanguage |-> None, programLanguage |-> None, language |-> None],
      [programmingLanguage |-> "", programLanguage |-> "java", language |-> "go"] }

\* LeetCodeSolutionRequest with its model validator check_language_field
LeetCodeSolutionRequest(c, l) ==
    [content |-> c,
     programmingLanguage |->
        IF OrEmpty(l.programmingLanguage) = "" /\ OrEmpty(l.programLanguage) = ""
           /\ OrEmpty(l.language) = ""
        THEN "python" ELSE l.programmingLanguage,
     programLanguage |-> l.programLanguage,
     language |-> l.language]

\* the three fields looked at in the opposite order
ResolveLanguageLegacyFirst(r) ==
    IF OrEmpty(r.language) # "" THEN r.language
    ELSE IF OrEmpty(r.programLanguage) # "" THEN r.programLanguage
    ELSE IF OrEmpty(r.programmingLanguage) # "" THEN r.programmingLanguage
    ELSE "python"

\* next((lang for lang in [...] if lang), "python")
ResolveLanguage(r) ==
    IF OrEmpty(r.programmingLanguage) # "" THEN r.programmingLanguage
    ELSE IF OrEmpty(r.programLanguage) # "" THEN r.programLanguage
    ELSE IF OrEmpty(r.language) # "" THEN r.language
    ELSE "python"

\* the length check without strip(): blanks count as characters
InvalidInputUnstripped(c) == ContentLen(c) = 0 \/ ContentLen(c) < MinContentLen

\* not problem_description or len(problem_description.strip()) < 10
InvalidInput(c) == ContentLen(c) = 0 \/ StripLen(c) < MinContentLen

\* ------------------------------------- LeetCodeCrew.solve_leetcode_problem
Returned(v) == [kind |-> "return", value |-> v]

Raised(e) == [kind |-> "raise", exc |-> e]

FallbackApproach ==
    SolutionApproach("Fallback Solution",
                     Text("No structured approaches were generated. Please try again.", 58),
                     1, "", "", "", "", "")

FallbackCriterion ==
    Criteria("fallbackCriterion", "No structured criteria were generated.")

\* a sort by rank that puts a later entry in front of the earlier entries of
\* the same rank
RECURSIVE InsertInFront(_, _)
InsertInFront(x, s) ==
    IF s = <<>> THEN <<x>>
    ELSE IF s[Len(s)].rank < x.rank THEN Append(s, x)
    ELSE Append(InsertInFront(x, SubSeq(s, 1, Len(s) - 1)), s[Len(s)])

RECURSIVE SortByRankUnstable(_)
SortByRankUnstable(s) ==
    IF s = <<>> THEN <<>>
    ELSE InsertInFront(s[Len(s)], SortByRankUnstable(SubSeq(s, 1, Len(s) - 1)))

\* the place of x in a list already sorted by rank: behind every entry whose
\* rank is not greater, which keeps equal ranks in their order of arrival
RECURSIVE Insert(_, _)
Insert(x, s) ==
    IF s = <<>> THEN <<x>>
    ELSE IF s[Len(s)].rank <= x.rank THEN Append(s, x)
    ELSE Append(Insert(x, SubSeq(s, 1, Len(s) - 1)), s[Len(s)])

\* sorted(approaches_list, key=lambda x: x.rank)
RECURSIVE SortByRank(_)
SortByRank(s) ==
    IF s = <<>> THEN <<>>
    ELSE Insert(s[Len(s)], SortByRank(SubSeq(s, 1, Len(s) - 1)))

\* the first try block: approaches from solution_task.output
ParseApproaches(out) ==
    IF out.kind = "absent" THEN <<FallbackApproach>>
    ELSE IF out.pydantic.kind = None THEN <<FallbackApproach>>
    ELSE SortByRank(out.pydantic.approaches)

\* the second try block: criteria from criteria_task.output; reading
\* .criteria of a None structured value raises inside the try
ParseCriteria(out) ==
    IF out.kind = "absent"
    THEN [criteria |-> <<FallbackCriterion>>, error |-> <<>>]
    ELSE IF out.pydantic.kind = None
    THEN [criteria |-> <<>>,
          error |-> <<" Error parsing educational insights: ", "AttributeError">>]
    ELSE [criteria |-> out.pydantic.criteria, error |-> <<>>]

\* the code after crew.kickoff() returned
ProcessResults(out1, out2) ==
    Returned(SolutionResult(ParseApproaches(out1), ParseCriteria(out2).criteria,
                            "success", ParseCriteria(out2).error))

\* no outer except: the exception leaves solve_leetcode_problem
OuterExceptMissing(e) == Raised(e)

\* the outer except of solve_leetcode_problem
OuterExcept(e) ==
    Returned(SolutionResult(<<>>, <<>>, "error", <<"Error in LeetCodeCrew: ", e>>))

\* ------------------------------------------ generate_leetcode_solution
Payload(p) == [kind |-> "payload", payload |-> p]

\* raise HTTPException(status_code=500, detail=d)
Http500(d) == [kind |-> "http500", detail |-> d]

NoResponse == [kind |-> "none"]

\* ApproachResponse(title=approach_dict.get('title', ''), ...)
ApproachResponse(d) ==
    [title |-> Get(d, "title", ""),
     content |-> Get(d, "content", Text("", 0)),
     rank |-> Get(d, "rank", DefaultRank),
     time_complexity |-> Get(d, "time_complexity", ""),
     space_complexity |-> Get(d, "space_complexity", ""),
     code |-> Get(d, "code", ""),
     edge_cases |-> Get(d, "edge_cases", ""),
     test_examples |-> Get(d, "test_examples", "")]

ApproachResponses(l) == [i \in 1..Len(l) |-> ApproachResponse(l[i])]

\* the last entry of minimal rank
BestApproachLast(rs) ==
    rs[CHOOSE i \in 1..Len(rs) :
          /\ \A j \in 1..Len(rs) : rs[i].rank <= rs[j].rank
          /\ \A j \in (i + 1)..Len(rs) : rs[j].rank > rs[i].rank]

\* min(approach_responses, key=rank): the first entry of minimal rank
BestApproach(rs) ==
    rs[CHOOSE i \in 1..Len(rs) :
          /\ \A j \in 1..Len(rs) : rs[i].rank <= rs[j].rank
          /\ \A j \in 1..(i - 1) : rs[j].rank > rs[i].rank]

\* f"{best_approach.title} - {best_approach.content[:200]}..."
Introduction(rs) ==
    [title |-> BestApproach(rs).title,
     prefix |-> Slice(BestApproach(rs).content, IntroductionLen)]

\* `x or default` on a string
OrDefault(x, default) == IF x = "" THEN default ELSE x

\* the parts of the i-th approach with a code block even for empty code
ApproachSectionsAlwaysCode(a, i, language) ==
    <<[section |-> "heading", index |-> i, text |-> <<OrDefault(a.title, "Solution")>>],
      [section |-> "content", index |-> i, text |-> a.content.text],
      [section |-> "time", index |-> i,
       text |-> <<OrDefault(a.time_complexity, "Not specified")>>],
      [section |-> "space", index |-> i,
       text |-> <<OrDefault(a.space_complexity, "Not specified")>>],
      [section |-> "code", index |-> i, text |-> <<language, a.code>>]>>
    \o (IF a.edge_cases # ""
        THEN <<[section |-> "edge_cases", index |-> i, text |-> <<a.edge_cases>>]>>
        ELSE <<>>)
    \o (IF a.test_examples # ""
        THEN <<[section |-> "test_examples", index |-> i, text |-> <<a.test_examples>>]>>
        ELSE <<>>)

\* the parts appended to full_text_parts for the i-th approach
ApproachSections(a, i, language) ==
    <<[section |-> "heading", index |-> i, text |-> <<OrDefault(a.title, "Solution")>>],
      [section |-> "content", index |-> i, text |-> a.content.text],
      [section |-> "time", index |-> i,
       text |-> <<OrDefault(a.time_complexity, "Not specified")>>],
      [section |-> "space", index |-> i,
       text |-> <<OrDefault(a.space_complexity, "Not specified")>>]>>
    \o (IF a.code # ""
        THEN <<[section |-> "code", index |-> i, text |-> <<language, a.code>>]>>
        ELSE <<>>)
    \o (IF a.edge_cases # ""
        THEN <<[section |-> "edge_cases", index |-> i, text |-> <<a.edge_cases>>]>>
        ELSE <<>>)
    \o (IF a.test_examples # ""
        THEN <<[section |-> "test_examples", index |-> i, text |-> <<a.test_examples>>]>>
        ELSE <<>>)

\* ''.join(full_text_parts)
RECURSIVE FullTextUpTo(_, _, _)
FullTextUpTo(rs, n, language) ==
    IF n = 0 THEN <<>>
    ELSE FullTextUpTo(rs, n - 1, language) \o ApproachSections(rs[n], n, language)

FullText(rs, language) == FullTextUpTo(rs, Len(rs), language)

\* the cleaned dictionary of one criterion (the dict branch: the criteria of
\* SolutionResult.dict() are dictionaries)
CleanCriterion(c) ==
    [id |-> OrEmpty(Get(c, "id", "")),
     description |-> OrEmpty(Get(c, "description", "")),
     pattern |-> OrEmpty(Get(c, "pattern", ""))]

\* solution_criteria = {"criteria": criteria_list}
SolutionCriteriaOf(l) == [criteria |-> [i \in 1..Len(l) |-> CleanCriterion(l[i])]]

DefaultCriterion ==
    [id |-> "defaultCriterion",
     description |-> "The solution must handle the given test cases correctly.",
     pattern |-> ""]

\* the "Ensure we have solution criteria" step
EnsureCriteria(sc) ==
    IF DOMAIN sc = {} \/ "criteria" \notin DOMAIN sc
    THEN [criteria |-> <<DefaultCriterion>>]
    ELSE sc

InvalidInputPayload ==
    [status |-> "error", message |-> <<"Problem description is too short or empty.">>]

\* the answer for a run without approaches, given as a success
NoApproachesPayloadAsSuccess ==
    [status |-> "success",
     message |-> <<"No solution approaches could be generated. Please try again or modify your problem description.">>]

NoApproachesPayload ==
    [status |-> "error",
     message |-> <<"No solution approaches could be generated. Please try again or modify your problem description.">>]

\* the result dictionary of a run that produced approaches
ResultPayload(req, sr) ==
    [leetcode_problem |-> req.content,
     language |-> ResolveLanguage(req),
     approaches |-> ApproachResponses(sr.approaches),
     solution_criteria |-> EnsureCriteria(SolutionCriteriaOf(sr.criteria)),
     status |-> "success",
     solutions |-> sr.approaches,
     introduction |-> Introduction(ApproachResponses(sr.approaches)),
     full_text |-> FullText(ApproachResponses(sr.approaches), ResolveLanguage(req)),
     approach_count |-> Len(sr.approaches)]

\* what the endpoint does with the outcome of crew.solve_leetcode_problem
GenerateResponse(req, solved) ==
    IF solved.kind = "raise"
    THEN Http500(<<"Error generating solution: ", solved.exc>>)
    ELSE IF solved.value.status = "error"
    THEN Http500(Get(solved.value, "error", <<"Unknown error occurred">>))
    ELSE IF solved.value.approaches = <<>>
    THEN Payload(NoApproachesPayload)
    ELSE Payload(ResultPayload(req, solved.value))

MissingKeyDetail ==
    <<"OpenAI API key not found. Please set the OPENAI_API_KEY environment variable.">>

\* tasks=[criteria_task, solution_task]: the two tasks in the wrong order
TaskOrderReversed == <<"stage2", "stage1">>

\* Crew(tasks=[solution_task, criteria_task], process=Process.sequential)
TaskOrder == <<"stage1", "stage2">>

\* the sequential process: the task after s, or the end of kickoff
AfterStage(s) ==
    LET i == CHOOSE k \in 1..Len(TaskOrder) : TaskOrder[k] = s
    IN  IF i < Len(TaskOrder) THEN TaskOrder[i + 1] ELSE "process"

\* a coordinator that calls crew.kickoff() again when it raised
AfterRaiseRetry == "kickoff"

\* except Exception: return SolutionResult(status="error").dict()
AfterRaise == "respond"

\* a criteria task created without context
CriteriaContextMissing(raw) == <<>>

\* context=[solution_generation_task]: the criteria task is given the raw
\* result of the solution generation task
CriteriaContext(raw) == <<raw>>

\* --------------------------------------------- concurrent requests: helpers
Procs == 1..NumProcs

\* tasks and outputs kept on the shared LeetCodeCrew instance
SlotOnInstance(p) == 0

\* solution_task, criteria_task, crew and solution_result are local
\* variables of the call: each call has its own
Slot(p) == p

\* a handler that gives up the event loop between its steps
YieldPointsEverywhere == {"check", "build", "solve", "respond"}

\* async def generate_leetcode_solution has no await: once it runs, it keeps
\* the event loop until it returns
YieldPoints == {}

\* the event loop after handler p moved to position q
NextLoop(p, q) == IF q = "done" \/ q \in YieldPoints THEN 0 ELSE p

EmptySlot == [out1 |-> NoOutput, out2 |-> NoOutput, raised |-> FALSE]

\* title, url, category and difficulty of a request: fields of
\* LeetCodeSolutionRequest that the endpoint never reads
Metadata(t, u, c, d) == [title |-> t, url |-> u, category |-> c, difficulty |-> d]

MetadataPool ==
    { Metadata("Two Sum", None, <<>>, None),
      Metadata("3Sum", "https://leetcode.com/problems/3sum", <<"array">>, "Medium") }

ConcContents == { Content(0, 9, 0), Content(0, 10, 0), Content(1, 10, 1) }

\* the three language fields as the caller sent them
ConcLanguages ==
    { [programmingLanguage |-> None, programLanguage |-> None, language |-> None],
      [programmingLanguage |-> "", programLanguage |-> "java", language |-> "go"] }

\* the validated request object of a concurrent request
ConcRequest(c, l, m) == LeetCodeSolutionRequest(c, l) @@ m

\* the arguments of crew.solve_leetcode_problem, with the title among them
SolveCallWithTitle(req) ==
    [problem_description |-> req.content, language |-> ResolveLanguage(req),
     title |-> req.title]

\* crew.solve_leetcode_problem(problem_description=..., language=...)
SolveCall(req) ==
    [problem_description |-> req.content, language |-> ResolveLanguage(req)]

NoCall == [problem_description |-> Content(0, 0, 0), language |-> ""]

\* what crew.kickoff() leaves behind in a concurrent request
ConcOutcomes ==
    { [out1 |-> NoOutput, out2 |-> NoOutput, raised |-> TRUE] }
    \cup { [out1 |-> o1, out2 |-> o2, raised |-> FALSE] :
             o1 \in { RawOutput,
                      ApproachesOutput(<<SolutionApproach("Hash Map", Text("one pass", 8), 1,
                                                          "O(n)", "O(n)", "code1", "empty", "ex1")>>) },
             o2 \in { RawOutput, CriteriaOutput(<<Criteria("handlesEmpty", "returns early")>>) } }

\* solve_leetcode_problem on the objects of one call
SolveOn(slot) ==
    IF slot.raised THEN OuterExcept("TimeoutError")
    ELSE ProcessResults(slot.out1, slot.out2)

\* ------------------------------------------- /analyze: the raw criteria text
\* a text is a sequence of segments: white space, a line break, words
\* without brackets, or a bracketed part "[ ... ]" that is well-formed JSON
\* (valid) or not
Seg(k, w, i, v) == [kind |-> k, s |-> w, items |-> i, valid |-> v]

Ws == Seg("ws", " ", <<>>, FALSE)

Nl == Seg("nl", "\n", <<>>, FALSE)

Words(w) == Seg("words", w, <<>>, FALSE)

\* a JSON string and a JSON number, as json.loads returns them
JsonStr(t) == [t |-> "str", text |-> t]

JsonNum(n) == [t |-> "num", text |-> <<Words(n)>>]

Array(i) == Seg("array", "[]", i, TRUE)

BrokenArray(i) == Seg("array", "[,]", i, FALSE)

SegmentPool ==
    { Ws, Nl, Words("Here is the result:"), Words("done"),
      Array(<<JsonStr(<<Words("a")>>), JsonStr(<<Ws, Words("b"), Ws>>)>>),
      Array(<<>>),
      Array(<<JsonStr(<<>>)>>),
      Array(<<JsonNum("0")>>),
      BrokenArray(<<JsonStr(<<Words("a")>>)>>) }

\* str(result.get("criteria", ...)): the raw text of the crew's result
CriteriaTexts == SeqsUpTo(SegmentPool, MaxTextLen)

SolutionTexts == { "No solution generated", "solution text" }

IsBlank(g) == g.kind \in {"ws", "nl"}

RECURSIVE LStrip(_)
LStrip(t) == IF t = <<>> THEN t ELSE IF IsBlank(Head(t)) THEN LStrip(Tail(t)) ELSE t

RECURSIVE RStrip(_)
RStrip(t) ==
    IF t = <<>> THEN t
    ELSE IF IsBlank(t[Len(t)]) THEN RStrip(SubSeq(t, 1, Len(t) - 1)) ELSE t

\* str.strip()
Strip(t) == RStrip(LStrip(t))

\* criteria_text.strip().startswith('[') and criteria_text.strip().endswith(']')
Bracketed(t) ==
    LET u == Strip(t)
    IN  u # <<>> /\ u[1].kind = "array" /\ u[Len(u)].kind = "array"

\* json.loads(criteria_text) returns the list when the text, white space
\* aside, is one well-formed array; it raises otherwise
JsonLoadsOk(t) == LET u == Strip(t) IN Len(u) = 1 /\ u[1].kind = "array" /\ u[1].valid

JsonLoads(t) == Strip(t)[1].items

\* the branch of analyze_problem for a result that is a dictionary
DictBranch(t) ==
    IF Bracketed(t)
    THEN IF JsonLoadsOk(t) THEN JsonLoads(t) ELSE <<JsonStr(t)>>
    ELSE <<JsonStr(t)>>

NoCriteriaDefault == <<JsonStr(<<Words("No criteria could be extracted")>>)>>

\* if not criteria_array: criteria_array = [default]
ApplyDefault(a) == IF a = <<>> THEN NoCriteriaDefault ELSE a

\* the truth value of a parsed item
Falsy(i) == (i.t = "str" /\ i.text = <<>>) \/ (i.t = "num" /\ i.text = <<Words("0")>>)

\* [str(item).strip() for item in criteria_array if item]
RECURSIVE EnsureStrings(_)
EnsureStrings(a) ==
    IF a = <<>> THEN <<>>
    ELSE IF Falsy(Head(a)) THEN EnsureStrings(Tail(a))
    ELSE <<Strip(Head(a).text)>> \o EnsureStrings(Tail(a))

CriteriaResponse(sol, c) == [kind |-> "payload", solution |-> sol, criteria |-> c]

AnalyzeHttp500 == [kind |-> "http500", solution |-> "", criteria |-> <<>>]

NoAnalyzeResponse == [kind |-> "none", solution |-> "", criteria |-> <<>>]

\* ------------------------------------------ AlgorithmVisualizerService
\* a dictionary with the keys `keys`, their values taken from the record d
Dict(keys, d) == [k \in keys |-> d[k]]

\* a piece of text is a sequence of tokens; the token "\"" is a double quote
\* and "'" a single quote
StepPool == { <<"init">>, <<"swap ", "\"", "pivot", "\"">> }

KeyStepLists == SeqsUpTo(StepPool, MaxKeySteps)

\* analysis["analysis"]: the empty dictionary, or one with some of the keys
\* algorithm_name, algorithm_type and key_steps
AnalysisEntries ==
    { Dict({}, [algorithm_name |-> <<>>]) }
    \cup { Dict({"algorithm_name", "algorithm_type"},
                [algorithm_name |-> <<"Quick Sort">>, algorithm_type |-> <<"sorting">>]) }
    \cup { Dict(keys, [algorithm_name |-> <<"Quick Sort">>, key_steps |-> ks]) :
             keys \in { {"key_steps"}, {"algorithm_name", "key_steps"} },
             ks \in KeyStepLists }

ErrorTexts == { <<"Overloaded">>, <<"Invalid ", "\"", "model", "\"">> }

\* the dictionaries analyze_algorithm returns
AnalysisPool ==
    { Dict({}, [error |-> <<>>]) }
    \cup { Dict({"error"}, [error |-> t]) : t \in ErrorTexts }
    \cup { Dict({"error", "analysis"}, [error |-> t, analysis |-> a]) :
             t \in ErrorTexts,
             a \in { Dict({"algorithm_name"}, [algorithm_name |-> <<"Quick Sort">>]) } }
    \cup { Dict({"analysis"}, [analysis |-> a]) : a \in AnalysisEntries }

\* text.replace('"', "'")
EscapeQuotes(t) == [i \in 1..Len(t) |-> IF t[i] = "\"" THEN "'" ELSE t[i]]

\* the node of a diagram: f"step{n}", or a fixed name with n = 0
Node(name, n) == [name |-> name, n |-> n]

\* key_steps without a limit
LimitStepsNone(ks) == ks

\* key_steps[:5]
LimitSteps(ks) == SubSeq(ks, 1, IF Len(ks) < MaxDiagramSteps THEN Len(ks) ELSE MaxDiagramSteps)

\* the lines of the flowchart for the steps: a node for each step and an
\* edge from the title or from the step before
RECURSIVE StepLines(_, _)
StepLines(steps, n) ==
    IF n = 0 THEN <<>>
    ELSE StepLines(steps, n - 1)
         \o <<[line |-> "node", id |-> Node("step", n), text |-> EscapeQuotes(steps[n])],
              [line |-> "edge",
               id |-> IF n > 1 THEN Node("step", n - 1) ELSE Node("title", 0),
               text |-> <<"step", "-->">>]>>

\* the steps of the animation: step i lights step1..step_i
AnimationSteps(ks) ==
    [i \in 1..Len(LimitSteps(ks)) |->
        [step_id |-> i,
         active_nodes |-> [j \in 1..i |-> Node("step", j)],
         description |-> ks[i]]]

\* _generate_diagram_from_analysis
GenerateDiagramFromAnalysis(analysis) ==
    IF "analysis" \notin DOMAIN analysis \/ DOMAIN analysis.analysis = {}
    THEN Raised(<<"No analysis available to generate diagram from">>)
    ELSE LET a == analysis.analysis
             name == Get(a, "algorithm_name", <<"Unknown Algorithm">>)
             ks == Get(a, "key_steps", <<>>)
         IN  Returned(
               [diagram_type |-> "mermaid",
                mermaid_definition |->
                    <<[line |-> "header", id |-> Node("flowchart", 0), text |-> <<"flowchart TD">>],
                      [line |-> "node", id |-> Node("title", 0), text |-> name]>>
                    \o StepLines(LimitSteps(ks), Len(LimitSteps(ks)))
                    \o <<[line |-> "style", id |-> Node("default", 0),
                          text |-> <<"fill:#f9f9f9,stroke:#333,stroke-width:1px">>]>>,
                steps |-> AnimationSteps(ks)])

\* _generate_error_diagram
GenerateErrorDiagram(error_message) ==
    [diagram_type |-> "mermaid",
     mermaid_definition |->
        <<[line |-> "header", id |-> Node("flowchart", 0), text |-> <<"flowchart TD">>],
          [line |-> "node", id |-> Node("error", 0), text |-> <<"Error Occurred">>],
          [line |-> "node", id |-> Node("details", 0), text |-> EscapeQuotes(error_message)],
          [line |-> "edge", id |-> Node("error", 0), text |-> <<"details", "-->">>],
          [line |-> "style", id |-> Node("default", 0),
           text |-> <<"fill:#f9d6d6,stroke:#a33,stroke-width:1px">>]>>,
     steps |-> <<[step_id |-> 1,
                  active_nodes |-> <<Node("error", 0), Node("details", 0)>>,
                  description |-> <<"Error occurred during processing">>]>>]

\* generate_visualization, from the analysis on
GenerateVisualization(analysis) ==
    IF "error" \in DOMAIN analysis
    THEN [status |-> "error",
          error |-> analysis.error,
          diagram_specification |-> GenerateErrorDiagram(analysis.error)]
    ELSE LET d == GenerateDiagramFromAnalysis(analysis)
         IN  IF d.kind = "return"
             THEN [status |-> "success",
                   algorithm_analysis |-> Get(analysis, "analysis", Dict({}, [x |-> 0])),
                   diagram_specification |-> d.value,
                   performance |-> [elapsedTimeSeconds |-> 0]]
             ELSE [status |-> "error",
                   error |-> d.exc,
                   algorithm_analysis |-> Get(analysis, "analysis", Dict({}, [x |-> 0])),
                   diagram_specification |-> GenerateErrorDiagram(d.exc)]

NoVisualization == [status |-> "none"]

\* ------------------------------------------------------------------ state
VARIABLES
    pc,                    \* position of the request being served
    request,               \* the LeetCodeSolutionRequest being served
    requests,              \* number of requests received so far
    apiKey,                \* OPENAI_API_KEY is set in the environment
    crew,                  \* get_leetcode_crew has its crew attribute
    crewBuilt,             \* number of LeetCodeCrew objects constructed
    kickoffs,              \* calls of crew.kickoff in this request
    events,                \* what this request has done so far, in order
    solution_raw,          \* what the generator returned for stage 1
    criteria_context,      \* the context given to the criteria task
    solution_task_output,  \* solution_task.output
    criteria_task_output,  \* criteria_task.output
    solved,                \* outcome of solve_leetcode_problem
    response,              \* what the endpoint gave to the caller
    cpc,                   \* concurrent requests: position of each handler
    loop,                  \* the handler running on the event loop, or 0
    creq,                  \* concurrent requests: the request of each handler
    used,                  \* the crew instance each handler obtained, or 0
    store,                 \* the objects of a call: tasks and their outputs
    writers,               \* the handlers that have written each of them
    cresp,                 \* concurrent requests: the response of each
    given,                 \* what the collaborator returned to each handler
    craw,                  \* the language fields each caller sent
    ccall,                 \* the arguments of each call of solve_leetcode_problem
    overlapped,            \* a request arrived while another was in progress
    apc,                   \* position of the /analyze handler
    solution,              \* /analyze: the solution text
    criteria_text,         \* /analyze: the raw criteria text
    criteria_array,        \* /analyze: the parsed criteria
    aresponse,             \* /analyze: the response
    vpc,                   \* position of generate_visualization
    analysis,              \* what analyze_algorithm returned
    vresult                \* what generate_visualization returned

cvars == <<cpc, loop, creq, used, store, writers, cresp, given, craw, ccall, overlapped>>

avars == <<apc, solution, criteria_text, criteria_array, aresponse>>

vvars == <<vpc, analysis, vresult>>

mainvars == <<pc, request, requests, kickoffs, events, solution_raw, criteria_context,
              solution_task_output, criteria_task_output, solved, response>>

vars == <<pc, request, requests, apiKey, crew, crewBuilt, kickoffs, events,
          solution_raw, criteria_context, solution_task_output, criteria_task_output, solved, response,
          cvars, avars, vvars>>

NoRequest == LeetCodeSolutionRequest(Content(0, 0, 0),
                 [programmingLanguage |-> None, programLanguage |-> None, language |-> None])

NotSolved == [kind |-> "none"]

Init ==
    /\ pc = "idle"
    /\ request = NoRequest
    /\ requests = 0
    /\ apiKey \in BOOLEAN
    /\ crew = FALSE
    /\ crewBuilt = 0
    /\ kickoffs = 0
    /\ events = <<>>
    /\ solution_raw = NoRaw
    /\ criteria_context = <<>>
    /\ solution_task_output = NoOutput
    /\ criteria_task_output = NoOutput
    /\ solved = NotSolved
    /\ response = NoResponse
    /\ cpc = [p \in Procs |-> "idle"]
    /\ loop = 0
    /\ creq = [p \in Procs |-> NoRequest]
    /\ used = [p \in Procs |-> 0]
    /\ store = [k \in 0..NumProcs |-> EmptySlot]
    /\ writers = [k \in 0..NumProcs |-> {}]
    /\ cresp = [p \in Procs |-> NoResponse]
    /\ given = [p \in Procs |-> EmptySlot]
    /\ craw = [p \in Procs |-> [programmingLanguage |-> None, programLanguage |-> None,
                                language |-> None]]
    /\ ccall = [p \in Procs |-> NoCall]
    /\ overlapped = FALSE
    /\ apc = "idle"
    /\ solution = ""
    /\ criteria_text = <<>>
    /\ criteria_array = <<>>
    /\ aresponse = NoAnalyzeResponse
    /\ vpc = "idle"
    /\ analysis = Dict({}, [error |-> <<>>])
    /\ vresult = NoVisualization

\* a request arrives at POST /api/leetcode-solutions
Request ==
    /\ pc \in {"idle", "done"}
    /\ requests < MaxRequests
    /\ \E c \in ContentPool, l \in LanguagePool :
          request' = LeetCodeSolutionRequest(c, l)
    /\ requests' = requests + 1
    /\ pc' = "validate"
    /\ kickoffs' = 0
    /\ events' = <<>>
    /\ solution_raw' = NoRaw
    /\ criteria_context' = <<>>
    /\ solution_task_output' = NoOutput
    /\ criteria_task_output' = NoOutput
    /\ solved' = NotSolved
    /\ response' = NoResponse
    /\ UNCHANGED <<apiKey, crew, crewBuilt, cvars, avars, vvars>>

\* the check of the problem description
Validate ==
    /\ pc = "validate"
    /\ IF InvalidInput(request.content)
       THEN /\ response' = Payload(InvalidInputPayload)
            /\ pc' = "done"
       ELSE /\ response' = response
            /\ pc' = "get_crew"
    /\ UNCHANGED <<request, requests, apiKey, crew, crewBuilt, kickoffs, events,
                   solution_task_output, criteria_task_output, solved>>
    /\ UNCHANGED <<cvars, avars, vvars>>
    /\ UNCHANGED <<solution_raw, criteria_context>>

\* crew = get_leetcode_crew()
GetCrew ==
    /\ pc = "get_crew"
    /\ IF ~crew /\ ~apiKey
       THEN /\ response' = Http500(MissingKeyDetail)
            /\ pc' = "done"
            /\ UNCHANGED <<crew, crewBuilt>>
       ELSE /\ crew' = TRUE
            /\ crewBuilt' = IF crew THEN crewBuilt ELSE crewBuilt + 1
            /\ response' = response
            /\ pc' = "create_tasks"
    /\ events' = Append(events, "get_crew")
    /\ UNCHANGED <<request, requests, apiKey, kickoffs,
                   solution_task_output, criteria_task_output, solved>>
    /\ UNCHANGED <<cvars, avars, vvars>>
    /\ UNCHANGED <<solution_raw, criteria_context>>

\* the two tasks and the Crew are created; a failure goes to the outer except
CreateTasks ==
    /\ pc = "create_tasks"
    /\ \/ /\ pc' = "kickoff"
          /\ solved' = solved
       \/ /\ solved' = OuterExcept("ValidationError")
          /\ pc' = "respond"
    /\ UNCHANGED <<request, requests, apiKey, crew, crewBuilt, kickoffs, events,
                   solution_task_output, criteria_task_output, response>>
    /\ UNCHANGED <<cvars, avars, vvars>>
    /\ UNCHANGED <<solution_raw, criteria_context>>

\* result = crew.kickoff()
Kickoff ==
    /\ pc = "kickoff"
    /\ kickoffs < MaxKickoffs
    /\ kickoffs' = kickoffs + 1
    /\ pc' = TaskOrder[1]
    /\ UNCHANGED <<request, requests, apiKey, crew, crewBuilt, events,
                   solution_task_output, criteria_task_output, solved, response>>
    /\ UNCHANGED <<cvars, avars, vvars>>
    /\ UNCHANGED <<solution_raw, criteria_context>>

\* the sequential process starts the solution generation task
StartStage1 ==
    /\ pc = "stage1"
    /\ events' = Append(events, "start1")
    /\ pc' = "stage1_running"
    /\ UNCHANGED <<request, requests, apiKey, crew, crewBuilt, kickoffs,
                   solution_task_output, criteria_task_output, solved, response>>
    /\ UNCHANGED <<cvars, avars, vvars>>
    /\ UNCHANGED <<solution_raw, criteria_context>>

\* the generation call of stage 1 returns
FinishStage1 ==
    /\ pc = "stage1_running"
    /\ \E raw \in Stage1Raw :
          /\ solution_raw' = raw
          /\ solution_task_output' = ValidateApproaches(raw)
    /\ pc' = AfterStage("stage1")
    /\ events' = Append(events, "finish1")
    /\ UNCHANGED <<request, requests, apiKey, crew, crewBuilt, kickoffs, criteria_task_output, solved, response>>
    /\ UNCHANGED <<cvars, avars, vvars>>
    /\ UNCHANGED criteria_context

\* the generation call of stage 1 raises out of crew.kickoff()
FailStage1 ==
    /\ pc = "stage1_running"
    /\ \E e \in Faults : solved' = OuterExcept(e)
    /\ pc' = AfterRaise
    /\ events' = Append(events, "raise1")
    /\ UNCHANGED <<request, requests, apiKey, crew, crewBuilt, kickoffs, solution_task_output, criteria_task_output, response>>
    /\ UNCHANGED <<cvars, avars, vvars>>
    /\ UNCHANGED <<solution_raw, criteria_context>>

\* the sequential process starts the criteria extraction task
StartStage2 ==
    /\ pc = "stage2"
    /\ events' = Append(events, "start2")
    /\ criteria_context' = CriteriaContext(solution_raw)
    /\ pc' = "stage2_running"
    /\ UNCHANGED <<request, requests, apiKey, crew, crewBuilt, kickoffs,
                   solution_task_output, criteria_task_output, solved, response>>
    /\ UNCHANGED <<cvars, avars, vvars>>
    /\ UNCHANGED solution_raw

\* the generation call of stage 2 returns, and with it crew.kickoff()
FinishStage2 ==
    /\ pc = "stage2_running"
    /\ \E o \in Stage2Outputs : criteria_task_output' = o
    /\ pc' = AfterStage("stage2")
    /\ events' = Append(events, "finish2")
    /\ UNCHANGED <<request, requests, apiKey, crew, crewBuilt, kickoffs, solution_task_output, solved, response>>
    /\ UNCHANGED <<cvars, avars, vvars>>
    /\ UNCHANGED <<solution_raw, criteria_context>>

\* the generation call of stage 2 raises out of crew.kickoff()
FailStage2 ==
    /\ pc = "stage2_running"
    /\ \E e \in Faults : solved' = OuterExcept(e)
    /\ pc' = AfterRaise
    /\ events' = Append(events, "raise2")
    /\ UNCHANGED <<request, requests, apiKey, crew, crewBuilt, kickoffs, solution_task_output, criteria_task_output, response>>
    /\ UNCHANGED <<cvars, avars, vvars>>
    /\ UNCHANGED <<solution_raw, criteria_context>>

\* the task outputs are turned into the SolutionResult
Process ==
    /\ pc = "process"
    /\ solved' = ProcessResults(solution_task_output, criteria_task_output)
    /\ pc' = "respond"
    /\ UNCHANGED <<request, requests, apiKey, crew, crewBuilt, kickoffs, events,
                   solution_task_output, criteria_task_output, response>>
    /\ UNCHANGED <<cvars, avars, vvars>>
    /\ UNCHANGED <<solution_raw, criteria_context>>

\* the endpoint builds its response from the SolutionResult
Respond ==
    /\ pc = "respond"
    /\ response' = GenerateResponse(request, solved)
    /\ pc' = "done"
    /\ UNCHANGED <<request, requests, apiKey, crew, crewBuilt, kickoffs, events,
                   solution_task_output, criteria_task_output, solved>>
    /\ UNCHANGED <<cvars, avars, vvars>>
    /\ UNCHANGED <<solution_raw, criteria_context>>

Next ==
    \/ Request
    \/ Validate
    \/ GetCrew
    \/ CreateTasks
    \/ Kickoff
    \/ StartStage1
    \/ FinishStage1
    \/ FailStage1
    \/ StartStage2
    \/ FinishStage2
    \/ FailStage2
    \/ Process
    \/ Respond

Spec == Init /\ [][Next]_vars

\* ------------------------------------------------- concurrent requests
\* a request arrives while the server may be busy with another
Arrive(p) ==
    /\ cpc[p] = "idle"
    /\ \E c \in ConcContents, l \in ConcLanguages, m \in MetadataPool :
          /\ creq' = [creq EXCEPT ![p] = ConcRequest(c, l, m)]
          /\ craw' = [craw EXCEPT ![p] = l]
    /\ cpc' = [cpc EXCEPT ![p] = "waiting"]
    /\ overlapped' = (overlapped \/ \E q \in Procs \ {p} : cpc[q] \notin {"idle", "done"})
    /\ UNCHANGED <<loop, ccall, used, store, writers, cresp, given, apiKey, crew, crewBuilt, mainvars, avars, vvars>>

\* the event loop is free and runs (or resumes) the handler of p
Schedule(p) ==
    /\ loop = 0
    /\ cpc[p] \notin {"idle", "done"}
    /\ loop' = p
    /\ UNCHANGED <<cpc, creq, craw, ccall, used, store, writers, cresp, given, overlapped,
                   apiKey, crew, crewBuilt, mainvars, avars, vvars>>

\* the check of the problem description
CValidate(p) ==
    /\ loop = p
    /\ cpc[p] = "waiting"
    /\ IF InvalidInput(creq[p].content)
       THEN /\ cresp' = [cresp EXCEPT ![p] = Payload(InvalidInputPayload)]
            /\ cpc' = [cpc EXCEPT ![p] = "done"]
            /\ loop' = NextLoop(p, "done")
       ELSE /\ cresp' = cresp
            /\ cpc' = [cpc EXCEPT ![p] = "check"]
            /\ loop' = NextLoop(p, "check")
    /\ UNCHANGED <<creq, craw, ccall, used, store, writers, given, overlapped,
                   apiKey, crew, crewBuilt, mainvars, avars, vvars>>

\* get_leetcode_crew: if not hasattr(get_leetcode_crew, "crew")
CCheck(p) ==
    /\ loop = p
    /\ cpc[p] = "check"
    /\ IF crew
       THEN /\ used' = [used EXCEPT ![p] = crewBuilt]
            /\ cpc' = [cpc EXCEPT ![p] = "solve"]
            /\ loop' = NextLoop(p, "solve")
            /\ cresp' = cresp
       ELSE IF ~apiKey
       THEN /\ cresp' = [cresp EXCEPT ![p] = Http500(MissingKeyDetail)]
            /\ cpc' = [cpc EXCEPT ![p] = "done"]
            /\ loop' = NextLoop(p, "done")
            /\ used' = used
       ELSE /\ cpc' = [cpc EXCEPT ![p] = "build"]
            /\ loop' = NextLoop(p, "build")
            /\ UNCHANGED <<used, cresp>>
    /\ UNCHANGED <<creq, craw, ccall, store, writers, given, overlapped,
                   apiKey, crew, crewBuilt, mainvars, avars, vvars>>

\* get_leetcode_crew: get_leetcode_crew.crew = LeetCodeCrew(api_key=api_key)
CBuild(p) ==
    /\ loop = p
    /\ cpc[p] = "build"
    /\ crewBuilt' = crewBuilt + 1
    /\ crew' = TRUE
    /\ used' = [used EXCEPT ![p] = crewBuilt + 1]
    /\ cpc' = [cpc EXCEPT ![p] = "solve"]
    /\ loop' = NextLoop(p, "solve")
    /\ UNCHANGED <<creq, craw, ccall, store, writers, cresp, given, overlapped, apiKey, mainvars, avars, vvars>>

\* solve_leetcode_problem up to the return of crew.kickoff(): the tasks of
\* this call receive their outputs
CKickoff(p) ==
    /\ loop = p
    /\ cpc[p] = "solve"
    /\ \E o \in ConcOutcomes :
          /\ store' = [store EXCEPT ![Slot(p)] = o]
          /\ given' = [given EXCEPT ![p] = o]
    /\ writers' = [writers EXCEPT ![Slot(p)] = @ \cup {p}]
    /\ cpc' = [cpc EXCEPT ![p] = "respond"]
    /\ loop' = NextLoop(p, "respond")
    /\ ccall' = [ccall EXCEPT ![p] = SolveCall(creq[p])]
    /\ UNCHANGED <<creq, craw, used, cresp, overlapped, apiKey, crew, crewBuilt, mainvars, avars, vvars>>

\* the rest of solve_leetcode_problem and of the endpoint: the response is
\* built from the outputs of the tasks of this call
CRespond(p) ==
    /\ loop = p
    /\ cpc[p] = "respond"
    /\ cresp' = [cresp EXCEPT ![p] = GenerateResponse(creq[p], SolveOn(store[Slot(p)]))]
    /\ cpc' = [cpc EXCEPT ![p] = "done"]
    /\ loop' = NextLoop(p, "done")
    /\ UNCHANGED <<creq, craw, ccall, used, store, writers, given, overlapped,
                   apiKey, crew, crewBuilt, mainvars, avars, vvars>>

NextConc ==
    \/ \E p \in Procs : Arrive(p)
    \/ \E p \in Procs : Schedule(p)
    \/ \E p \in Procs : CValidate(p)
    \/ \E p \in Procs : CCheck(p)
    \/ \E p \in Procs : CBuild(p)
    \/ \E p \in Procs : CKickoff(p)
    \/ \E p \in Procs : CRespond(p)

SpecConc == Init /\ [][NextConc]_vars

\* ------------------------------------------------------------- /analyze
\* crew_manager.analyze_problem returns the dictionary with the solution and
\* the crew's result as criteria
AnalyzeKickoff ==
    /\ apc = "idle"
    /\ \E sol \in SolutionTexts, t \in CriteriaTexts :
          /\ solution' = sol
          /\ criteria_text' = t
    /\ criteria_array' = <<>>
    /\ aresponse' = NoAnalyzeResponse
    /\ apc' = "parse"
    /\ UNCHANGED <<apiKey, crew, crewBuilt, mainvars, cvars, vvars>>

\* crew_manager.analyze_problem raises: except Exception -> HTTPException(500)
AnalyzeFail ==
    /\ apc = "idle"
    /\ solution' = ""
    /\ criteria_text' = <<>>
    /\ criteria_array' = <<>>
    /\ aresponse' = AnalyzeHttp500
    /\ apc' = "done"
    /\ UNCHANGED <<apiKey, crew, crewBuilt, mainvars, cvars, vvars>>

\* elif isinstance(result, dict): try json.loads, else the text as one item
AnalyzeParse ==
    /\ apc = "parse"
    /\ criteria_array' = DictBranch(criteria_text)
    /\ apc' = "normalize"
    /\ UNCHANGED <<solution, criteria_text, aresponse, apiKey, crew, crewBuilt, mainvars, cvars, vvars>>

\* the default, the final filtering and the return
AnalyzeRespond ==
    /\ apc = "normalize"
    /\ criteria_array' = EnsureStrings(ApplyDefault(criteria_array))
    /\ aresponse' = CriteriaResponse(solution, EnsureStrings(ApplyDefault(criteria_array)))
    /\ apc' = "done"
    /\ UNCHANGED <<solution, criteria_text, apiKey, crew, crewBuilt, mainvars, cvars, vvars>>

NextAnalyze == AnalyzeKickoff \/ AnalyzeFail \/ AnalyzeParse \/ AnalyzeRespond

SpecAnalyze == Init /\ [][NextAnalyze]_vars

\* ------------------------------------------------ generate_visualization
\* analysis = self.analyze_algorithm(code, problem_description)
AnalyzeAlgorithm ==
    /\ vpc = "idle"
    /\ \E a \in AnalysisPool : analysis' = a
    /\ vpc' = "analyzed"
    /\ UNCHANGED <<vresult, apiKey, crew, crewBuilt, mainvars, cvars, avars>>

\* the rest of generate_visualization
Visualize ==
    /\ vpc = "analyzed"
    /\ vresult' = GenerateVisualization(analysis)
    /\ vpc' = "done"
    /\ UNCHANGED <<analysis, apiKey, crew, crewBuilt, mainvars, cvars, avars>>

NextVisualize == AnalyzeAlgorithm \/ Visualize

SpecVisualize == Init /\ [][NextVisualize]_vars

\* the steps the server takes by itself; FinishStage1/2 and FailStage1/2 are
\* the generation collaborator's, and nothing in the code bounds its answer
ProgramStep ==
    \/ Validate
    \/ GetCrew
    \/ CreateTasks
    \/ Kickoff
    \/ StartStage1
    \/ StartStage2
    \/ Process
    \/ Respond

\* the server keeps taking its own steps
FairSpec == Spec /\ WF_vars(ProgramStep)

\* ----------------------------------------------------------------- claims
Range(s) == { s[i] : i \in 1..Len(s) }

\* the request has been answered after its crew.kickoff() was called
Served == pc = "done" /\ kickoffs = 1

\* the answer is a result dictionary carrying approaches and criteria
HasResult == response.kind = "payload" /\ "approaches" \in DOMAIN response.payload

\* stage 1 produced a structured list of approaches
Stage1Structured ==
    solution_task_output.kind = "output" /\ solution_task_output.pydantic.kind = "model"

\* stage 2 produced a structured list of criteria
Stage2Structured ==
    criteria_task_output.kind = "output" /\ criteria_task_output.pydantic.kind = "model"

TitlesAndRanks(l) == [i \in 1..Len(l) |-> <<l[i].title, l[i].rank>>]

\* C1: every valid request whose stages ran, whatever the collaborator did,
\* is answered by a payload with at least one approach and at least one
\* criterion.
C1_FallbackNeverEmpty ==
    Served =>
        /\ HasResult
        /\ response.payload.approaches # <<>>
        /\ "solution_criteria" \in DOMAIN response.payload
        /\ response.payload.solution_criteria.criteria # <<>>

\* C2: a failing stage never aborts the run: when stage 1 raises, the
\* fallback approach stands in for it and stage 2 is still started; when
\* stage 2 raises, the approaches of stage 1 are kept.
C2_StageFailureNeverAborts ==
    (pc \in {"respond", "done"} /\ solved.kind = "return") =>
        /\ "raise1" \in Range(events) =>
              /\ "start2" \in Range(events)
              /\ solved.value.approaches = <<FallbackApproach>>
        /\ "raise2" \in Range(events) =>
              solved.value.approaches = ParseApproaches(solution_task_output)

\* C3: once one of the two stages came back with an output, the status
\* given to the caller is "success".
C3_ErrorOnlyIfEveryStageFailed ==
    (Served /\ ("finish1" \in Range(events) \/ "finish2" \in Range(events))) =>
        /\ response.kind = "payload"
        /\ response.payload.status = "success"

\* C4: a problem text with fewer than 10 characters after stripping is
\* answered with status "error" and a message, and in that run the crew is
\* not asked for and no stage is started.
C4_InvalidInputRejected ==
    (requests > 0 /\ pc # "validate" /\ request.content.core < 10) =>
        /\ pc = "done"
        /\ response.kind = "payload"
        /\ response.payload.status = "error"
        /\ "message" \in DOMAIN response.payload
        /\ response.payload.message # <<>>
        /\ events = <<>>
        /\ kickoffs = 0

\* C4 witness: a text of 10 characters, 9 after stripping, was rejected
C4_Witness ==
    /\ pc = "done"
    /\ request.content = Content(1, 9, 0)
    /\ response = Payload(InvalidInputPayload)
    /\ crew = FALSE

\* C5: when a generation call raises out of crew.kickoff(), the caller gets
\* a payload of fallback values: no HTTP 500 and no exception text.
C5_TransportFaultAbsorbed ==
    (pc = "done" /\ ("raise1" \in Range(events) \/ "raise2" \in Range(events))) =>
        /\ HasResult
        /\ response.payload.approaches # <<>>
        /\ "message" \in DOMAIN response.payload =>
              Range(response.payload.message) \cap Faults = {}

\* C6: solve_leetcode_problem always returns, and returns a dictionary with
\* exactly the keys approaches, criteria, status and error, whose status is
\* "success" or "error"; an exception never leaves it.
C6_SolveNeverRaises ==
    /\ solved.kind \in {"none", "return"}
    /\ pc = "respond" => solved.kind = "return"
    /\ solved.kind = "return" =>
          /\ DOMAIN solved.value = {"approaches", "criteria", "status", "error"}
          /\ solved.value.status \in {"success", "error"}

\* C6 witness: a generation call raised and solve_leetcode_problem returned
\* the error dictionary
C6_Witness ==
    /\ pc = "respond"
    /\ "raise2" \in Range(events)
    /\ solved.kind = "return"
    /\ solved.value.status = "error"
    /\ solved.value.error = <<"Error in LeetCodeCrew: ", "TimeoutError">>

\* C7: the approaches of the response are in non-decreasing order of rank,
\* and for each rank they are the approaches stage 1 emitted with that rank,
\* in the order stage 1 emitted them.
C7_RankOrderStable ==
    (pc = "done" /\ HasResult /\ Stage1Structured) =>
        LET out == response.payload.approaches
            emitted == solution_task_output.pydantic.approaches
        IN  /\ \A i, j \in 1..Len(out) : i < j => out[i].rank <= out[j].rank
            /\ \A r \in { emitted[i].rank : i \in 1..Len(emitted) } :
                  SelectSeq(TitlesAndRanks(out), LAMBDA x : x[2] = r)
                  = SelectSeq(TitlesAndRanks(emitted), LAMBDA x : x[2] = r)
            /\ Len(out) = Len(emitted)

\* C7 witness: stage 1 emitted a rank-2 approach before two different
\* rank-1 approaches, and the response has been built
C7_Witness ==
    /\ pc = "done"
    /\ HasResult
    /\ Stage1Structured
    /\ LET emitted == solution_task_output.pydantic.approaches
       IN  /\ Len(emitted) = 3
           /\ emitted[1].rank = 2
           /\ emitted[2].rank = 1
           /\ emitted[3].rank = 1
           /\ emitted[2].title # emitted[3].title
           /\ response.payload.approaches[1].title = emitted[2].title
           /\ response.payload.approaches[3].title = emitted[1].title

\* C8: a response never has more than 2 approaches, and when stage 1 emits
\* more than 2 the response has exactly the 2 of lowest rank.
C8_ApproachCap ==
    (pc = "done" /\ HasResult) =>
        /\ response.payload.approach_count <= 2
        /\ Len(response.payload.approaches) <= 2
        /\ (Stage1Structured /\ Len(solution_task_output.pydantic.approaches) > 2) =>
              TitlesAndRanks(response.payload.approaches)
              = TitlesAndRanks(SubSeq(SortByRank(solution_task_output.pydantic.approaches), 1, 2))

\* C9: a response never has more than 5 criteria, and when stage 2 emits
\* more than 5 the response has its first 5 in their order.
C9_CriteriaCap ==
    (pc = "done" /\ HasResult) =>
        LET out == response.payload.solution_criteria.criteria
        IN  /\ Len(out) <= 5
            /\ (Stage2Structured /\ Len(criteria_task_output.pydantic.criteria) > 5) =>
                  [i \in 1..Len(out) |-> out[i].id]
                  = [i \in 1..5 |-> criteria_task_output.pydantic.criteria[i].id]

\* C10: the ids of the criteria of a response are pairwise distinct.
C10_UniqueCriterionIds ==
    (pc = "done" /\ HasResult) =>
        LET out == response.payload.solution_criteria.criteria
        IN  \A i, j \in 1..Len(out) : i # j => out[i].id # out[j].id

Count(s, x) == Cardinality({ k \in 1..Len(s) : s[k] = x })

\* C11: the criteria stage is started only after the approaches stage has
\* finished with a result; while stage 1 has not completed, stage 2 has not
\* started.
C11_Stage2AfterStage1 ==
    /\ \A k \in 1..Len(events) :
          events[k] = "start2" => \E j \in 1..(k - 1) : events[j] = "finish1"
    /\ pc = "stage2_running" => "finish1" \in Range(events)
    /\ pc = "stage1_running" => "start2" \notin Range(events)

\* C11 witness: stage 2 is running, and stage 1 was started and finished
\* before it was started
C11_Witness ==
    /\ pc = "stage2_running"
    /\ events = <<"get_crew", "start1", "finish1", "start2">>

\* C12 (as stated): the context of the criteria stage is exactly one record,
\* the normalized top-ranked approach of stage 1.
C12_ContextIsTopRankedOnly ==
    (pc = "stage2_running" /\ Stage1Structured) =>
        /\ Len(criteria_context) = 1
        /\ criteria_context[1].kind = "records"
        /\ criteria_context[1].records
           = (IF ParseApproaches(solution_task_output) = <<>> THEN <<>>
              ELSE <<ParseApproaches(solution_task_output)[1]>>)

\* C12 (amended): the context of the criteria stage is the raw result of the
\* solution generation task as the generator returned it: every record, in
\* the order of emission, not validated and not sorted.
C12_ContextIsRawStage1Result ==
    ("start2" \in Range(events)) =>
        /\ Len(criteria_context) = 1
        /\ criteria_context[1] = solution_raw

\* C12 witness: stage 2 runs with a context of two records, the rank-2 one
\* before the rank-1 one, as emitted
C12_Witness ==
    /\ pc = "stage2_running"
    /\ solution_raw.kind = "records"
    /\ Len(solution_raw.records) = 2
    /\ \A i \in 1..2 : "rank" \in DOMAIN solution_raw.records[i]
    /\ solution_raw.records[1].rank = 2
    /\ solution_raw.records[2].rank = 1
    /\ criteria_context[1].records = solution_raw.records

\* C16: within one call of solve_leetcode_problem, crew.kickoff() is called
\* at most once and each stage is started at most once.
C16_NoRetries ==
    /\ kickoffs <= 1
    /\ Count(events, "start1") <= 1
    /\ Count(events, "start2") <= 1

\* C16 witness: a generation call raised and the request was answered after a
\* single kickoff
C16_Witness ==
    /\ pc = "done"
    /\ kickoffs = 1
    /\ "raise2" \in Range(events)
    /\ Count(events, "start1") = 1
    /\ Count(events, "start2") = 1

\* C17: when stage 1 returns 2 records with every field of the contract, the
\* response has status "success" and exactly these 2 approaches, field by
\* field.
C17_RoundTrip ==
    (/\ Served
     /\ solution_raw.kind = "records"
     /\ Len(solution_raw.records) = 2
     /\ \A i \in 1..2 : DOMAIN solution_raw.records[i] = ApproachFields) =>
        /\ HasResult
        /\ response.payload.status = "success"
        /\ \/ response.payload.approaches = solution_raw.records
           \/ response.payload.approaches
              = <<solution_raw.records[2], solution_raw.records[1]>>

\* C19: when kickoff returned and a record of stage 1 lacks title or content,
\* every record of that output is in the response, the missing fields filled
\* with the defaults.
C19_MissingFieldFilled ==
    (/\ pc = "done"
     /\ "finish2" \in Range(events)
     /\ solution_raw.kind = "records"
     /\ \E i \in 1..Len(solution_raw.records) : ~ValidRecord(solution_raw.records[i])) =>
        /\ HasResult
        /\ Len(response.payload.approaches) = Len(solution_raw.records)
        /\ \A i \in 1..Len(solution_raw.records) :
              \E j \in 1..Len(response.payload.approaches) :
                 response.payload.approaches[j] = ApproachResponse(solution_raw.records[i])

\* C20: every approach of a response has a non-empty title and a non-empty
\* content, a record emitted without rank has rank 999, and the approaches
\* of rank 999 come after all the others.
C20_TitleContentNonEmpty ==
    (pc = "done" /\ HasResult) =>
        LET out == response.payload.approaches
        IN  /\ \A i \in 1..Len(out) : out[i].title # "" /\ out[i].content.len > 0
            /\ \A i, j \in 1..Len(out) :
                  (out[i].rank = DefaultRank /\ out[j].rank < DefaultRank) => j < i
            /\ Stage1Structured =>
                  \A i \in 1..Len(solution_raw.records) :
                     "rank" \notin DOMAIN solution_raw.records[i] =>
                        \E j \in 1..Len(out) :
                           /\ out[j].title = solution_raw.records[i].title
                           /\ out[j].rank = DefaultRank

\* C14: every accepted request is eventually answered, also when a
\* generation call never returns.
C14_AcceptedRequestAnswered == (pc = "get_crew") ~> (pc = "done")

\* C13: under concurrent requests at most one LeetCodeCrew is constructed,
\* and every request that obtained the handle obtained the same instance.
C13_HandleBuiltOnce ==
    /\ crewBuilt <= 1
    /\ \A p \in Procs : used[p] \in {0, 1}
    /\ Cardinality({ p \in Procs : cpc[p] = "build" }) <= 1

\* C13 witness: a request arrived while another was in progress, both were
\* served, and both used the one instance
C13_Witness ==
    /\ overlapped
    /\ crewBuilt = 1
    /\ \A p \in {1, 2} : cpc[p] = "done" /\ used[p] = 1

\* C15: the tasks and outputs of a call are written by that call only, and
\* the response of a request is the one built from its own request and from
\* what the collaborator returned to its own call.
C15_RequestsIndependent ==
    /\ \A k \in 0..NumProcs : Cardinality(writers[k]) <= 1
    /\ \A p \in Procs :
          (cpc[p] = "done" /\ used[p] # 0) =>
              cresp[p] = GenerateResponse(creq[p], SolveOn(given[p]))

\* C15 witness: two overlapping requests with different contents and
\* different stage outputs have both been answered
C15_Witness ==
    /\ overlapped
    /\ \A p \in {1, 2} : cpc[p] = "done" /\ used[p] # 0
    /\ creq[1] # creq[2]
    /\ given[1] # given[2]
    /\ cresp[1] # cresp[2]
    /\ cresp[1].kind = "payload"
    /\ cresp[2].kind = "payload"

\* the raw criteria text is free text around one well-formed array: words
\* before and/or after it, on one line
EmbedsArray(t) ==
    LET u == Strip(t)
    IN  /\ Len(u) >= 2
        /\ Cardinality({ i \in 1..Len(u) : u[i].kind = "array" }) = 1
        /\ \E i \in 1..Len(u) : /\ u[i].kind = "array"
                                /\ u[i].valid
                                /\ u[i].items # <<>>
                                /\ \A j \in 1..Len(u[i].items) : ~Falsy(u[i].items[j])
        /\ \A i \in 1..Len(u) : u[i].kind # "nl"

EmbeddedItems(t) ==
    LET u == Strip(t)
        i == CHOOSE k \in 1..Len(u) : u[k].kind = "array"
    IN  u[i].items

\* C18: when the raw criteria text of /analyze is free text that embeds a
\* well-formed JSON array, the returned criteria are the elements of that
\* array, not the whole raw text as a single item.
C18_EmbeddedArrayExtracted ==
    (apc = "done" /\ aresponse.kind = "payload" /\ EmbedsArray(criteria_text)) =>
        aresponse.criteria = EnsureStrings(EmbeddedItems(criteria_text))

\* crew.kickoff() returned and its outputs have been processed
KickoffReturned == pc \in {"respond", "done"} /\ "finish2" \in Range(events)

\* C21: whenever the criteria stage yields no structured value (no task
\* output, or a structured output that is None), solve_leetcode_problem
\* returns exactly one criterion, the one with id "fallbackCriterion".
C21_CriteriaFallback ==
    (KickoffReturned /\ ~Stage2Structured) =>
        /\ solved.kind = "return"
        /\ Len(solved.value.criteria) = 1
        /\ solved.value.criteria[1].id = "fallbackCriterion"

\* C22: when stage 1 returns a structured but empty list of approaches, the
\* caller gets a "success" payload whose approaches are exactly the fallback
\* approach, with approach_count 1, and not an error object.
C22_EmptyApproachesFallback ==
    (pc = "done" /\ KickoffReturned /\ Stage1Structured
     /\ solution_task_output.pydantic.approaches = <<>>) =>
        /\ HasResult
        /\ response.payload.status = "success"
        /\ Len(response.payload.approaches) = 1
        /\ response.payload.approaches[1].title = "Fallback Solution"
        /\ response.payload.approaches[1].rank = 1
        /\ response.payload.approach_count = 1

\* C23: in every payload the endpoint returns the status is "success" or
\* "error", and a message is present only when the status is "error".
C23_MessageOnlyOnError ==
    response.kind = "payload" =>
        /\ response.payload.status \in {"success", "error"}
        /\ "message" \in DOMAIN response.payload => response.payload.status = "error"

\* C23 witness: the crew ran, produced no approach, and the caller got an
\* error payload with its message
C23_Witness ==
    /\ pc = "done"
    /\ KickoffReturned
    /\ response.kind = "payload"
    /\ response.payload.status = "error"
    /\ "message" \in DOMAIN response.payload
    /\ "approaches" \notin DOMAIN response.payload

\* the first non-empty of the three language fields as sent, in the order
\* programmingLanguage, programLanguage, language
SentLanguage(l) ==
    LET fields == <<l.programmingLanguage, l.programLanguage, l.language>>
        set == { i \in 1..3 : fields[i] # None /\ fields[i] # "" }
    IN  IF set = {} THEN "python"
        ELSE fields[CHOOSE i \in set : \A j \in set : i <= j]

\* handler p has called solve_leetcode_problem
Called(p) == cpc[p] \in {"respond", "done"} /\ used[p] # 0

\* C24: two requests with the same content and the same resolved language
\* but different metadata cause the same call of solve_leetcode_problem and,
\* for the same stage outputs, get the same response.
C24_MetadataIgnored ==
    \A p, q \in Procs :
        (/\ Called(p)
         /\ Called(q)
         /\ creq[p].content = creq[q].content
         /\ SentLanguage(craw[p]) = SentLanguage(craw[q])) =>
            /\ ccall[p] = ccall[q]
            /\ (cpc[p] = "done" /\ cpc[q] = "done" /\ given[p] = given[q]) =>
                  cresp[p] = cresp[q]

\* C24 witness: two requests that differ in their metadata only were given
\* the same stage outputs and both got the result dictionary
C24_Witness ==
    /\ cpc[1] = "done"
    /\ cpc[2] = "done"
    /\ creq[1].content = creq[2].content
    /\ craw[1] = craw[2]
    /\ creq[1].title # creq[2].title
    /\ creq[1].url # creq[2].url
    /\ given[1] = given[2]
    /\ cresp[1].kind = "payload"
    /\ "approaches" \in DOMAIN cresp[1].payload
    /\ ccall[1].problem_description = creq[1].content

\* the code blocks of full_text
CodeSections(ft) == { i \in 1..Len(ft) : ft[i].section = "code" }

HasSection(ft, i, name) ==
    \E k \in 1..Len(ft) : ft[k].section = name /\ ft[k].index = i

\* the approaches are rendered one after the other, in their order
RenderedInOrder(ft, n) ==
    /\ \A k \in 1..Len(ft) : ft[k].index \in 1..n
    /\ \A k, l \in 1..Len(ft) : k < l => ft[k].index <= ft[l].index

\* C26: in full_text the approaches are rendered in their sorted order, and
\* for every approach each of the subsections time complexity, space
\* complexity, code, edge cases and test examples appears if and only if
\* its field is non-empty.
C26_EverySubsectionIffNonEmpty ==
    (pc = "done" /\ HasResult) =>
        LET ft == response.payload.full_text
            out == response.payload.approaches
        IN  /\ RenderedInOrder(ft, Len(out))
            /\ \A i \in 1..Len(out) :
                  /\ HasSection(ft, i, "time") <=> out[i].time_complexity # ""
                  /\ HasSection(ft, i, "space") <=> out[i].space_complexity # ""
                  /\ HasSection(ft, i, "code") <=> out[i].code # ""
                  /\ HasSection(ft, i, "edge_cases") <=> out[i].edge_cases # ""
                  /\ HasSection(ft, i, "test_examples") <=> out[i].test_examples # ""

\* C26 as the code has it: the approaches are rendered in their sorted
\* order; heading, content, time complexity and space complexity are always
\* rendered, an empty complexity as "Not specified"; code, edge cases and
\* test examples appear if and only if their field is non-empty.
C26_OptionalSubsectionsIffNonEmpty ==
    (pc = "done" /\ HasResult) =>
        LET ft == response.payload.full_text
            out == response.payload.approaches
        IN  /\ RenderedInOrder(ft, Len(out))
            /\ \A i \in 1..Len(out) :
                  /\ HasSection(ft, i, "heading")
                  /\ HasSection(ft, i, "content")
                  /\ HasSection(ft, i, "time")
                  /\ HasSection(ft, i, "space")
                  /\ HasSection(ft, i, "code") <=> out[i].code # ""
                  /\ HasSection(ft, i, "edge_cases") <=> out[i].edge_cases # ""
                  /\ HasSection(ft, i, "test_examples") <=> out[i].test_examples # ""
            /\ \A k \in 1..Len(ft) :
                  /\ ft[k].section = "time" =>
                        ft[k].text = <<IF out[ft[k].index].time_complexity = ""
                                       THEN "Not specified"
                                       ELSE out[ft[k].index].time_complexity>>
                  /\ ft[k].section = "space" =>
                        ft[k].text = <<IF out[ft[k].index].space_complexity = ""
                                       THEN "Not specified"
                                       ELSE out[ft[k].index].space_complexity>>

\* C26 witness: a response of two approaches, the first without complexities
\* and code, the second with all of them
C26_Witness ==
    /\ pc = "done"
    /\ HasResult
    /\ Len(response.payload.approaches) = 2
    /\ response.payload.approaches[1].time_complexity = ""
    /\ response.payload.approaches[1].code = ""
    /\ response.payload.approaches[2].time_complexity # ""
    /\ response.payload.approaches[2].code # ""
    /\ HasSection(response.payload.full_text, 1, "time")
    /\ ~HasSection(response.payload.full_text, 1, "code")
    /\ HasSection(response.payload.full_text, 2, "code")

\* C27: in every success payload the introduction is built from the title
\* of the approach of minimal rank, the earliest on ties, which is
\* approaches[0], and from a prefix of at most 200 characters of its
\* content; approach_count is the length of the approaches list.
C27_IntroductionFromBest ==
    (pc = "done" /\ HasResult) =>
        LET out == response.payload.approaches
            intro == response.payload.introduction
        IN  /\ \A j \in 1..Len(out) : out[1].rank <= out[j].rank
            /\ intro.title = out[1].title
            /\ intro.prefix.len <= IntroductionLen
            /\ intro.prefix.len = (IF out[1].content.len <= IntroductionLen
                                    THEN out[1].content.len ELSE IntroductionLen)
            /\ intro.prefix.text[Len(intro.prefix.text)] = out[1].content.text[1]
            /\ (out[1].content.len <= IntroductionLen => intro.prefix = out[1].content)
            /\ response.payload.approach_count = Len(out)

\* C27 witness: two approaches of rank 1 with different titles, the first
\* with a content of more than 200 characters
C27_Witness ==
    /\ pc = "done"
    /\ HasResult
    /\ Len(response.payload.approaches) >= 2
    /\ response.payload.approaches[1].rank = response.payload.approaches[2].rank
    /\ response.payload.approaches[1].title # response.payload.approaches[2].title
    /\ response.payload.approaches[1].content.len > IntroductionLen
    /\ response.payload.introduction.title = response.payload.approaches[1].title
    /\ response.payload.introduction.prefix.len = IntroductionLen

\* the lines of a text: its parts between line breaks
RECURSIVE SplitLines(_, _)
SplitLines(t, line) ==
    IF t = <<>> THEN <<line>>
    ELSE IF Head(t).kind = "nl" THEN <<line>> \o SplitLines(Tail(t), <<>>)
    ELSE SplitLines(Tail(t), Append(line, Head(t)))

\* the non-empty lines of a text, each without surrounding white space
NonEmptyLines(t) ==
    LET ls == SplitLines(t, <<>>)
    IN  SelectSeq([i \in 1..Len(ls) |-> Strip(ls[i])], LAMBDA l : l # <<>>)

\* a text without any bracketed part and with at least two non-empty lines
SeveralPlainLines(t) ==
    /\ \A i \in 1..Len(t) : t[i].kind # "array"
    /\ Len(NonEmptyLines(t)) >= 2

\* C28: when the raw criteria text of /analyze is not JSON and spans several
\* lines, the returned criteria are its non-empty lines, one criterion per
\* line, each stripped, and not one item holding the whole text.
C28_OneCriterionPerLine ==
    (apc = "done" /\ aresponse.kind = "payload" /\ SeveralPlainLines(criteria_text)) =>
        aresponse.criteria = NonEmptyLines(criteria_text)

\* C29: the criteria list returned by /analyze is never empty and holds
\* non-empty strings only, whatever the raw criteria text.
C29_CriteriaNeverEmpty ==
    (apc = "done" /\ aresponse.kind = "payload") =>
        /\ aresponse.criteria # <<>>
        /\ \A i \in 1..Len(aresponse.criteria) : aresponse.criteria[i] # <<>>

\* the analysis has no "error" key and a non-empty "analysis" entry
UsableAnalysis ==
    /\ "error" \notin DOMAIN analysis
    /\ "analysis" \in DOMAIN analysis
    /\ DOMAIN analysis.analysis # {}

====
